---------------------------- MODULE Spec2Model ----------------------------
(***************************************************************************)
(* Pulse-sequence driven Bloch simulation (blochsim_pulseq.py):            *)
(*   apply_pulseq          the event dispatcher of one isochromat          *)
(*   combine_gradients,                                                    *)
(*   combine_gradient_areas,                                               *)
(*   find_precessing_time  the gradient reconstruction helpers             *)
(*   __main__              the worker pool over the phantom's locations    *)
(*                         and the reduction of the per-location signals   *)
(*                                                                         *)
(* Times are integers (multiples of one time unit).  Amplitudes, areas and *)
(* interpolated gradient values are exact rationals <<n, d>>.  The         *)
(* magnetization of an isochromat is the term built from the operators     *)
(* applied to it (its history); a signal sample is the isochromat read at  *)
(* that moment, and a sum of samples is the bag of its summands.           *)
(*                                                                         *)
(* The sample times of an RF pulse and of an arbitrary gradient are        *)
(* one-row arrays, <<row>>: rf.t[0] and g.t[0] of the source are the row.  *)
(***************************************************************************)
EXTENDS Integers, Sequences, FiniteSets, Bags, TLC

(***************************************************************************)
(* Bounds of the model.                                                    *)
(***************************************************************************)
MaxBlocks == 2      \* blocks in a sequence
NumLocs == 2        \* locations of the largest phantom
PoolSize == 2       \* mp.cpu_count(): worker processes of the pool
MaxSamples == 2     \* adc.num_samples ranges over 1..MaxSamples
MaxFlat == 2        \* flat_time of a trapezoid ranges over 1..MaxFlat

(***************************************************************************)
(* Program constant.                                                       *)
(***************************************************************************)
GAMMA_BAR == 42580000

(***************************************************************************)
(* Exact rationals <<n, d>>, d > 0, in lowest terms.                       *)
(***************************************************************************)
Abs(a) == IF a < 0 THEN -a ELSE a

RECURSIVE Gcd(_, _)
Gcd(a, b) == IF b = 0 THEN a ELSE Gcd(b, a % b)

Rat(n, d) ==
    LET g == Gcd(Abs(n), Abs(d))
        s == IF d < 0 THEN -1 ELSE 1
    IN  IF n = 0 THEN <<0, 1>> ELSE <<s * (n \div g), s * (d \div g)>>

RatInt(i) == <<i, 1>>
RatAdd(p, q) == Rat(p[1] * q[2] + q[1] * p[2], p[2] * q[2])
RatSub(p, q) == Rat(p[1] * q[2] - q[1] * p[2], p[2] * q[2])
RatMul(p, q) == Rat(p[1] * q[1], p[2] * q[2])
RatDivInt(p, i) == Rat(p[1], p[2] * i)
RatZero == RatInt(0)

(***************************************************************************)
(* numpy helpers.                                                          *)
(***************************************************************************)
\* np.arange(start, stop, step), step > 0
Arange(start, stop, step) ==
    LET n == IF stop > start THEN (stop - start + step - 1) \div step ELSE 0
    IN  [i \in 1..n |-> start + (i - 1) * step]

\* np.interp(x, xp, fp) at one point x: constant outside [xp[1], xp[-1]],
\* linear between the two control points that enclose x
Interp(x, xp, fp) ==
    IF x < xp[1] THEN fp[1]
    ELSE LET j == CHOOSE i \in 1..Len(xp) :
                     /\ xp[i] <= x
                     /\ \A k \in (i + 1)..Len(xp) : xp[k] > x
         IN  IF j = Len(xp) \/ xp[j] = x THEN fp[j]
             ELSE RatAdd(fp[j],
                         RatDivInt(RatMul(RatSub(fp[j + 1], fp[j]), RatInt(x - xp[j])),
                                   xp[j + 1] - xp[j]))

RECURSIVE MaxOf(_)
MaxOf(s) == IF Len(s) = 1 THEN s[1]
            ELSE LET m == MaxOf(Tail(s)) IN IF s[1] >= m THEN s[1] ELSE m

GradNames == <<"gx", "gy", "gz">>

\* blk.__contains__(name)
Contains(blk, name) == name \in DOMAIN blk

Raise(e) == [ok |-> FALSE, err |-> e]

(***************************************************************************)
(* find_precessing_time(blk, dt): the longest duration among gx, gy, gz.   *)
(* max() of an empty list raises ValueError.                               *)
(***************************************************************************)
GradDuration(g, dt) ==
    IF g.type = "trap" THEN g.rise_time + g.flat_time + g.fall_time
    ELSE Len(g.t[1]) * dt

find_precessing_time(blk, dt) ==
    LET present == SelectSeq(GradNames, LAMBDA n : Contains(blk, n))
        grad_times == [i \in 1..Len(present) |-> GradDuration(blk[present[i]], dt)]
    IN  IF Len(grad_times) = 0 THEN Raise("ValueError")
        ELSE [ok |-> TRUE, val |-> MaxOf(grad_times)]

(***************************************************************************)
(* combine_gradients(blk, dt, timing, delay): gx, gy, gz interpolated at   *)
(* the time points into three rows.  np.interp takes one-dimensional xp    *)
(* and fp and raises ValueError on others ("object too deep"), so on the   *)
(* one-row arrays g.t and g.waveform of an arbitrary gradient.             *)
(***************************************************************************)
\* g_time, g_shape and the number of dimensions of these arrays
GradControl(g) ==
    IF g.type = "trap"
    THEN [ndim |-> 1,
          g_time |-> <<0, g.rise_time, g.rise_time + g.flat_time,
                       g.rise_time + g.flat_time + g.fall_time>>,
          g_shape |-> <<RatZero, Rat(g.amplitude, GAMMA_BAR),
                        Rat(g.amplitude, GAMMA_BAR), RatZero>>]
    ELSE [ndim |-> 2,
          g_time |-> g.t,
          g_shape |-> [r \in 1..Len(g.waveform) |->
                         [i \in 1..Len(g.waveform[r]) |->
                             Rat(g.waveform[r][i], GAMMA_BAR)]]]

GradRow(blk, g_name, grad_timing) ==
    IF Contains(blk, g_name)
    THEN LET c == GradControl(blk[g_name])
         IN  IF c.ndim # 1 THEN Raise("ValueError")
             ELSE [ok |-> TRUE,
                   val |-> [i \in 1..Len(grad_timing) |->
                              Interp(grad_timing[i], c.g_time, c.g_shape)]]
    ELSE [ok |-> TRUE, val |-> [i \in 1..Len(grad_timing) |-> RatZero]]

GradTiming(blk, dt, timing, delay) ==
    IF dt # 0
    THEN LET d == find_precessing_time(blk, dt)
         IN  IF ~d.ok THEN d
             ELSE [ok |-> TRUE, duration |-> d.val,
                   grad_timing |-> IF delay = 0 THEN Arange(0, d.val, dt)
                                   ELSE <<0>> \o Arange(delay, d.val, dt)]
    ELSE IF Len(timing) # 0
    THEN [ok |-> TRUE, duration |-> timing[Len(timing)] - timing[1],
          grad_timing |-> timing]
    ELSE [ok |-> TRUE, duration |-> 0, grad_timing |-> <<>>]

combine_gradients(blk, dt, timing, delay) ==
    LET gt == GradTiming(blk, dt, timing, delay)
    IN  IF ~gt.ok THEN gt
        ELSE LET rows == [a \in 1..3 |-> GradRow(blk, GradNames[a], gt.grad_timing)]
             IN  IF \E a \in 1..3 : ~rows[a].ok THEN Raise("ValueError")
                 ELSE [ok |-> TRUE,
                       grad |-> [a \in 1..3 |-> rows[a].val],
                       timing |-> gt.grad_timing,
                       duration |-> gt.duration]

(***************************************************************************)
(* combine_gradient_areas(blk): the three areas, divided by GAMMA_BAR.     *)
(* The area of a trapezoid and of an absent axis is a scalar; np.trapz     *)
(* along the row of a one-row array gives an array of one value.           *)
(* np.array of a list that mixes the two has an inhomogeneous shape and    *)
(* raises ValueError.                                                      *)
(***************************************************************************)
\* np.trapz(y, x)
RECURSIVE Trapz(_, _)
Trapz(y, x) ==
    IF Len(y) < 2 THEN RatZero
    ELSE RatAdd(RatDivInt(RatMul(RatInt(y[1] + y[2]), RatInt(x[2] - x[1])), 2),
                Trapz(Tail(y), Tail(x)))

\* g_area and the number of its dimensions
GradArea(g) ==
    IF g.type = "trap" THEN [ndim |-> 0, val |-> g.area]
    ELSE [ndim |-> 1,
          val |-> [r \in 1..Len(g.t) |-> Trapz(g.waveform[r], g.t[r])]]

combine_gradient_areas(blk) ==
    LET grad_areas == [a \in 1..3 |-> IF Contains(blk, GradNames[a])
                                      THEN GradArea(blk[GradNames[a]])
                                      ELSE [ndim |-> 0, val |-> RatZero]]
    IN  IF \E a \in 1..3 : grad_areas[a].ndim # grad_areas[1].ndim
        THEN Raise("ValueError")
        ELSE [ok |-> TRUE,
              val |-> [a \in 1..3 |->
                         IF grad_areas[a].ndim = 0
                         THEN RatDivInt(grad_areas[a].val, GAMMA_BAR)
                         ELSE [r \in 1..Len(grad_areas[a].val) |->
                                 RatDivInt(grad_areas[a].val[r], GAMMA_BAR)]]]

(***************************************************************************)
(* The isochromat (SpinGroup of spingroup_ps.py).  Its magnetization is    *)
(* kept as the history of the operators applied to it since construction;  *)
(* get_m_signal reads it without changing it.                              *)
(***************************************************************************)
SpinGroup(loc, pdt1t2, df) ==
    [loc |-> loc, pdt1t2 |-> pdt1t2, df |-> df, hist |-> <<>>]

Mutate(isc, call) == [isc EXCEPT !.hist = Append(@, call)]

isc_delay(isc, t) == Mutate(isc, [op |-> "delay", args |-> <<t>>])
isc_fpwg(isc, grad_area, t) == Mutate(isc, [op |-> "fpwg", args |-> <<grad_area, t>>])
isc_apply_rf(isc, b1, rf_grad, dt) ==
    Mutate(isc, [op |-> "apply_rf", args |-> <<b1, rf_grad, dt>>])
get_m_signal(isc) == isc

(***************************************************************************)
(* The run of apply_pulseq on one isochromat:                              *)
(*   isc     the isochromat                                                *)
(*   signal  the list of inner lists collected so far                      *)
(*   calls   every call made on the isochromat so far, in order, with the  *)
(*           key of the block and the case (branch) that made it           *)
(*   err     "" or the exception that ended the run                        *)
(***************************************************************************)
NoErr == ""

Log(st, key, case, op, args) ==
    Append(st.calls, [key |-> key, case |-> case, op |-> op, args |-> args])

DoDelay(st, key, case, t) ==
    [st EXCEPT !.isc = isc_delay(@, t),
               !.calls = Log(st, key, case, "delay", <<t>>)]

DoFpwg(st, key, case, grad_area, t) ==
    [st EXCEPT !.isc = isc_fpwg(@, grad_area, t),
               !.calls = Log(st, key, case, "fpwg", <<grad_area, t>>)]

DoApplyRf(st, key, case, b1, rf_grad, dt) ==
    [st EXCEPT !.isc = isc_apply_rf(@, b1, rf_grad, dt),
               !.calls = Log(st, key, case, "apply_rf", <<b1, rf_grad, dt>>)]

DoRead(st, key, case) ==
    [st EXCEPT !.calls = Log(st, key, case, "get_m_signal", <<>>)]

Fail(st, e) == [st EXCEPT !.err = e]

\* grad[:, v] * dt, v counted from 0
Column(grad, v, dt) == [a \in 1..3 |-> RatMul(grad[a][v + 1], RatInt(dt))]

\* Case 1: Delay
CaseDelay(st, key, blk) ==
    LET delay == blk["delay"].delay[1]
    IN  DoDelay(st, key, "delay", delay)

\* Case 2: RF pulse
CaseRf(st, key, blk, dt_rf) ==
    LET rf == blk["rf"]
        b1 == [i \in 1..Len(rf.signal) |-> Rat(rf.signal[i], GAMMA_BAR)]
        rf_time == [i \in 1..Len(rf.t[1]) |-> rf.t[1][i] - dt_rf]
        c == combine_gradients(blk, 0, rf_time, 0)
    IN  IF ~c.ok THEN Fail(st, c.err)
        ELSE DoApplyRf(st, key, "rf", b1, c.grad, dt_rf)

\* the sampling loop with the advance before the read
RECURSIVE AdcLoopAdvanceFirst(_, _, _, _, _, _, _, _)
AdcLoopAdvanceFirst(st, signal_1D, q, v, key, adc, grad, n_timing) ==
    IF q >= n_timing
    THEN [st EXCEPT !.signal = Append(@, signal_1D)]
    ELSE LET sample == v <= adc.num_samples
             s1 == DoFpwg(st, key, "adc", Column(grad, v, adc.dwell), adc.dwell)
             s2 == IF sample THEN DoRead(s1, key, "adc") ELSE s1
             sig == IF sample THEN Append(signal_1D, get_m_signal(s1.isc))
                    ELSE signal_1D
         IN  AdcLoopAdvanceFirst(s2, sig, q + 1, v + 1, key, adc, grad, n_timing)

\* the sampling loop that keeps a sample only where the isochromat has T1 = 1
RECURSIVE AdcLoopByMagnetization(_, _, _, _, _, _, _, _)
AdcLoopByMagnetization(st, signal_1D, q, v, key, adc, grad, n_timing) ==
    IF q >= n_timing
    THEN [st EXCEPT !.signal = Append(@, signal_1D)]
    ELSE LET sample == v <= adc.num_samples /\ st.isc.pdt1t2[2] = 1
             s1 == IF sample THEN DoRead(st, key, "adc") ELSE st
             sig == IF sample THEN Append(signal_1D, get_m_signal(st.isc))
                    ELSE signal_1D
         IN  AdcLoopByMagnetization(
                 DoFpwg(s1, key, "adc", Column(grad, v, adc.dwell), adc.dwell),
                 sig, q + 1, v + 1, key, adc, grad, n_timing)

\* the sampling loop with one pass more: "for q in range(1, len(timing) + 1)"
RECURSIVE AdcLoopOneMore(_, _, _, _, _, _, _, _)
AdcLoopOneMore(st, signal_1D, q, v, key, adc, grad, n_timing) ==
    IF q > n_timing
    THEN [st EXCEPT !.signal = Append(@, signal_1D)]
    ELSE LET sample == v <= adc.num_samples
             s1 == IF sample THEN DoRead(st, key, "adc") ELSE st
             sig == IF sample THEN Append(signal_1D, get_m_signal(st.isc))
                    ELSE signal_1D
         IN  IF v >= n_timing THEN Fail(s1, "IndexError")
             ELSE AdcLoopOneMore(
                      DoFpwg(s1, key, "adc", Column(grad, v, adc.dwell), adc.dwell),
                      sig, q + 1, v + 1, key, adc, grad, n_timing)

\* the sampling loop that ends after the last declared sample
RECURSIVE AdcLoopStopAfterSamples(_, _, _, _, _, _, _, _)
AdcLoopStopAfterSamples(st, signal_1D, q, v, key, adc, grad, n_timing) ==
    IF q >= n_timing \/ v > adc.num_samples
    THEN [st EXCEPT !.signal = Append(@, signal_1D)]
    ELSE AdcLoopStopAfterSamples(
             DoFpwg(DoRead(st, key, "adc"), key, "adc",
                    Column(grad, v, adc.dwell), adc.dwell),
             Append(signal_1D, get_m_signal(st.isc)),
             q + 1, v + 1, key, adc, grad, n_timing)

\* Case 3: ADC sampling.  The loop "for q in range(1, len(timing))", from
\* iteration q on, with the column counter v and the samples read so far.
RECURSIVE AdcLoop(_, _, _, _, _, _, _, _)
AdcLoop(st, signal_1D, q, v, key, adc, grad, n_timing) ==
    IF q >= n_timing
    THEN [st EXCEPT !.signal = Append(@, signal_1D)]
    ELSE LET sample == v <= adc.num_samples
             s1 == IF sample THEN DoRead(st, key, "adc") ELSE st
             sig == IF sample THEN Append(signal_1D, get_m_signal(st.isc))
                    ELSE signal_1D
         IN  IF v >= n_timing THEN Fail(s1, "IndexError")
             ELSE AdcLoop(DoFpwg(s1, key, "adc", Column(grad, v, adc.dwell), adc.dwell),
                          sig, q + 1, v + 1, key, adc, grad, n_timing)

CaseAdc(st, key, blk) ==
    LET adc == blk["adc"]
        dt_adc == adc.dwell
        delay == adc.delay
        c == combine_gradients(blk, dt_adc, <<>>, delay)
    IN  IF ~c.ok THEN Fail(st, c.err)
        ELSE IF Len(c.timing) = 0 THEN Fail(st, "IndexError")
        ELSE AdcLoop(DoFpwg(st, key, "adc", Column(c.grad, 0, delay), delay),
                     <<>>, 1, 1, key, adc, c.grad, Len(c.timing))

\* the gradient-only case that also appends an (empty) inner list
CaseGradAppends(st, key, blk, dt_grad) ==
    LET fp_grads_area == combine_gradient_areas(blk)
        dur == find_precessing_time(blk, dt_grad)
    IN  IF ~fp_grads_area.ok THEN Fail(st, fp_grads_area.err)
        ELSE IF ~dur.ok THEN Fail(st, dur.err)
        ELSE [DoFpwg(st, key, "grad", fp_grads_area.val, dur.val) EXCEPT
                 !.signal = Append(@, <<>>)]

\* Case 4: just gradients
CaseGrad(st, key, blk, dt_grad) ==
    LET fp_grads_area == combine_gradient_areas(blk)
        dur == find_precessing_time(blk, dt_grad)
    IN  IF ~fp_grads_area.ok THEN Fail(st, fp_grads_area.err)
        ELSE IF ~dur.ok THEN Fail(st, dur.err)
        ELSE DoFpwg(st, key, "grad", fp_grads_area.val, dur.val)

\* the dispatch with independent tests ("if" for "elif")
DispatchBlockNoElse(st, sq, key) ==
    LET this_blk == sq.block[key]
        row == [i \in 1..6 |-> IF <<"delay", "rf", "gx", "gy", "gz", "adc">>[i]
                                     \in DOMAIN this_blk THEN 1 ELSE 0]
        s1 == IF row[1] # 0 THEN CaseDelay(st, key, this_blk) ELSE st
        s2 == IF row[2] # 0 THEN CaseRf(s1, key, this_blk, sq.system.rf_raster_time)
              ELSE s1
        s3 == IF row[6] # 0 /\ row[2] = 0 THEN CaseAdc(s2, key, this_blk) ELSE s2
    IN  IF row[2] = 0 /\ row[6] = 0 /\ (row[3] # 0 \/ row[4] # 0 \/ row[5] # 0)
        THEN CaseGrad(s3, key, this_blk, sq.system.grad_raster_time)
        ELSE s3

(***************************************************************************)
(* The sequence: seq.block_events maps each key to its event row           *)
(* <<delay, rf, gx, gy, gz, adc>> (0: the sub-event is absent) and keeps   *)
(* the keys in the order in which they were stored; seq.get_block(key) is  *)
(* the block decoded from that row, holding the populated sub-events.      *)
(***************************************************************************)
RowNames == <<"delay", "rf", "gx", "gy", "gz", "adc">>

event_row(blk) == [i \in 1..6 |-> IF Contains(blk, RowNames[i]) THEN 1 ELSE 0]

get_block(sq, key) == sq.block[key]

\* One pass of the loop body of apply_pulseq, for the block stored under key.
\* event_row[0..5] of the source are event_row[1..6] here.
DispatchBlock(st, sq, key) ==
    LET this_blk == get_block(sq, key)
        row == event_row(this_blk)
        dt_grad == sq.system.grad_raster_time
        dt_rf == sq.system.rf_raster_time
    IN  IF row[1] # 0 THEN CaseDelay(st, key, this_blk)
        ELSE IF row[2] # 0 THEN CaseRf(st, key, this_blk, dt_rf)
        ELSE IF row[6] # 0 THEN CaseAdc(st, key, this_blk)
        ELSE IF row[3] # 0 \/ row[4] # 0 \/ row[5] # 0
             THEN CaseGrad(st, key, this_blk, dt_grad)
        ELSE st

\* the keys sorted, whatever the order the dict holds them in
RECURSIVE SortedKeys(_)
SortedKeys(S) ==
    IF S = {} THEN <<>>
    ELSE LET m == CHOOSE x \in S : \A y \in S : x <= y
         IN  <<m>> \o SortedKeys(S \ {m})

KeysSorted(sq) == SortedKeys({sq.keys[i] : i \in 1..Len(sq.keys)})

\* events.keys(): the keys in the order the dict holds them
Keys(sq) == sq.keys

\* signal = [] and the loop "for key in events.keys()" before its first pass;
\* visited lists the keys the loop has taken so far
NewRun(isc) ==
    [isc |-> isc, signal |-> <<>>, calls |-> <<>>, err |-> NoErr, visited |-> <<>>]

\* the key of the next pass of the loop
NextKey(st, sq) == Keys(sq)[Len(st.visited) + 1]

LoopStep(st, sq) ==
    [DispatchBlock(st, sq, NextKey(st, sq)) EXCEPT
        !.visited = Append(st.visited, NextKey(st, sq))]

LoopDone(st, sq) == Len(st.visited) >= Len(Keys(sq))

\* rf_time computed in place: this_blk['rf'].t[0] -= dt_rf
BlockAfterDispatchInPlace(blk, sq) ==
    IF "rf" \in DOMAIN blk
    THEN [blk EXCEPT !["rf"].t[1] =
                        [i \in 1..Len(@) |-> @[i] - sq.system.rf_raster_time]]
    ELSE blk

\* the block as a pass of the loop leaves it: b1, rf_time, grad[:, v] * dt are
\* new arrays, and nothing is assigned to the block or to its sub-events
BlockAfterDispatch(blk, sq) == blk

\* apply_pulseq(isc, seq) as a whole: all passes, unless one raises
RECURSIVE RunFrom(_, _)
RunFrom(st, sq) ==
    IF st.err # NoErr \/ LoopDone(st, sq) THEN st
    ELSE RunFrom(LoopStep(st, sq), sq)

apply_pulseq(isc, sq) == RunFrom(NewRun(isc), sq)

\* the isochromat built from the first location of the phantom
NewIsochromatFirst(loc_ind, freq_offset, ph) ==
    LET first == CHOOSE x \in DOMAIN ph : \A y \in DOMAIN ph : x <= y
    IN  SpinGroup(ph[first].loc, ph[first].pdt1t2, freq_offset)

\* sim_single_spingroup(loc_ind, freq_offset, phantom, seq)
NewIsochromat(loc_ind, freq_offset, ph) ==
    SpinGroup(ph[loc_ind].loc, ph[loc_ind].pdt1t2, freq_offset)

sim_single_spingroup(loc_ind, freq_offset, ph, sq) ==
    apply_pulseq(NewIsochromat(loc_ind, freq_offset, ph), sq)

(***************************************************************************)
(* Inputs: gradients, ADC and RF events, blocks, sequences, phantoms.      *)
(***************************************************************************)
System == [grad_raster_time |-> 2, rf_raster_time |-> 1]

\* a trapezoid as pulseq makes it: area = amplitude*(flat + rise/2 + fall/2)
Trap(rise, flat, fall, amp) ==
    [type |-> "trap", rise_time |-> rise, flat_time |-> flat, fall_time |-> fall,
     amplitude |-> amp,
     area |-> RatAdd(RatInt(amp * flat), Rat(amp * (rise + fall), 2))]

Amplitudes == {4258}
RampTimes == {0, 1}
Traps == {Trap(r, f, r, a) : r \in RampTimes, f \in 1..MaxFlat, a \in Amplitudes}

\* an arbitrary gradient of n samples, one per gradient raster step
Arbitrary(n) ==
    [type |-> "grad",
     waveform |-> <<[i \in 1..n |-> 4258 * i]>>,
     t |-> <<[i \in 1..n |-> (i - 1) * System.grad_raster_time]>>]
Arbitraries == {Arbitrary(n) : n \in 1..2}

Adcs == [num_samples : 1..MaxSamples, dwell : {1, 2}, delay : {0, 1}]

RfPulse(n) == [signal |-> [i \in 1..n |-> 1000 * i],
               t |-> <<[i \in 1..n |-> i * System.rf_raster_time]>>]
Rfs == {RfPulse(n) : n \in 1..2}

Delays == {[delay |-> <<d>>] : d \in {1, 3}}

NoEvents == [n \in {} |-> 0]
Only(name, ev) == name :> ev

\* the gradient axes of a block: any one axis with any trapezoid or arbitrary
\* gradient, or several axes, each with its own trapezoid, or with arbitrary
\* gradients on some or on all of them
AxisTrap == [gx |-> Trap(0, 1, 0, 4258), gy |-> Trap(1, 1, 1, 4258),
             gz |-> Trap(0, MaxFlat, 0, -4258)]
GradConfigs ==
    {NoEvents}
      \cup {Only(n, g) : n \in {"gx", "gy", "gz"}, g \in Traps}
      \cup {[n \in S |-> AxisTrap[n]] :
              S \in {T \in SUBSET {"gx", "gy", "gz"} : Cardinality(T) >= 2}}
      \cup {Only(n, g) : n \in {"gx", "gy", "gz"}, g \in Arbitraries}
      \cup {[gx |-> Arbitrary(2), gy |-> AxisTrap["gy"]],
            [gx |-> Arbitrary(1), gy |-> Arbitrary(2), gz |-> Arbitrary(2)]}

\* the delay, rf and adc sub-events of a block: none, one, or several (the
\* dispatcher's tie-break)
Driving ==
    {NoEvents}
      \cup {Only("delay", d) : d \in Delays}
      \cup {Only("rf", r) : r \in Rfs}
      \cup {Only("adc", a) : a \in Adcs}
      \cup {[n \in S |-> [delay |-> [delay |-> <<1>>], rf |-> RfPulse(1),
                          adc |-> [num_samples |-> 1, dwell |-> 1, delay |-> 0]][n]] :
              S \in {T \in SUBSET {"delay", "rf", "adc"} : Cardinality(T) >= 2}}

Blocks == {d @@ g : d \in Driving, g \in GradConfigs}

\* a few well-formed blocks: a delay, an RF pulse under a gradient, readouts
\* of one and of MaxSamples samples, a readout without gradient, a gradient
LongTrap == Trap(1, MaxSamples + 1, 1, 4258)
CoreBlocks ==
    { Only("delay", [delay |-> <<1>>]),
      Only("rf", RfPulse(2)) @@ Only("gz", Trap(0, 1, 0, 4258)),
      Only("adc", [num_samples |-> 1, dwell |-> 1, delay |-> 0]) @@ Only("gx", LongTrap),
      Only("adc", [num_samples |-> MaxSamples, dwell |-> 1, delay |-> 1])
          @@ Only("gx", LongTrap),
      Only("adc", [num_samples |-> 1, dwell |-> 1, delay |-> 0]),
      Only("gy", Trap(1, 1, 1, 4258)) }

KeyOrders(n) == {p \in [1..n -> 1..n] : \A i, j \in 1..n : i # j => p[i] # p[j]}
AscendingKeys(n) == [i \in 1..n |-> i]

\* a Sequence holding the blocks bs under the keys 1..Len(bs), stored in the
\* order keys
MakeSequence(bs, keys) == [system |-> System, keys |-> keys, block |-> bs]

\* the blocks around the block under study
ContextBlocks ==
    { Only("delay", [delay |-> <<1>>]),
      Only("adc", [num_samples |-> 1, dwell |-> 1, delay |-> 0]) @@ Only("gx", LongTrap),
      Only("gy", Trap(1, 1, 1, 4258)) }

\* a sequence of n blocks: the block b at position i among the context blocks c
StudyBlocks(n, i, b, c) == [j \in 1..n |-> IF j = i THEN b ELSE c[j]]

\* the phantom: loc_ind |-> location and (PD, T1, T2)
Location(l) == [loc |-> <<l, 0, 0>>, pdt1t2 |-> <<1, l, 1>>]
Phantoms == {[l \in S |-> Location(l)] : S \in (SUBSET (1..NumLocs)) \ {{}}}

\* phantom.get_list_inds(): the indices, ascending
RECURSIVE Ascending(_)
Ascending(S) ==
    IF S = {} THEN <<>>
    ELSE LET m == CHOOSE x \in S : \A y \in S : x <= y
         IN  <<m>> \o Ascending(S \ {m})

get_list_inds(ph) == Ascending(DOMAIN ph)

\* df = 0
df == 0

(***************************************************************************)
(* np.sum(results, axis=0): the elementwise sum over the locations of      *)
(* their signals.  The results must form an array: no None among them,     *)
(* and all inner lists of one length (an inhomogeneous shape raises        *)
(* ValueError).  The sum of samples is the bag of the summands.            *)
(***************************************************************************)
None == <<>>
Some(v) == <<v>>

Rectangular(sigs) ==
    /\ \A i \in 1..Len(sigs) : Len(sigs[i]) = Len(sigs[1])
    /\ \A i, j \in 1..Len(sigs) :
         \A b \in 1..Len(sigs[i]), c \in 1..Len(sigs[j]) :
            Len(sigs[i][b]) = Len(sigs[j][c])

RECURSIVE SumOver(_, _, _, _)
SumOver(sigs, i, b, k) ==
    IF i > Len(sigs) THEN EmptyBag
    ELSE SetToBag({sigs[i][b][k]}) (+) SumOver(sigs, i + 1, b, k)

\* the sum along the wrong axis: over the blocks of each location
SumAxis1(sigs) ==
    [i \in 1..Len(sigs) |->
        [k \in 1..(IF Len(sigs[i]) = 0 THEN 0 ELSE Len(sigs[i][1])) |->
            LET RECURSIVE Over(_)
                Over(b) == IF b > Len(sigs[i]) THEN EmptyBag
                           ELSE SetToBag({sigs[i][b][k]}) (+) Over(b + 1)
            IN  Over(1)]]

SumAxis0(sigs) ==
    [b \in 1..Len(sigs[1]) |->
        [k \in 1..Len(sigs[1][b]) |-> SumOver(sigs, 1, b, k)]]

NpSum(results) ==
    IF \E i \in 1..Len(results) : results[i] = None THEN Raise("TypeError")
    ELSE LET sigs == [i \in 1..Len(results) |-> results[i][1]]
         IN  IF ~Rectangular(sigs) THEN Raise("ValueError")
             ELSE [ok |-> TRUE, val |-> SumAxis0(sigs)]

(***************************************************************************)
(* The main program: one task per location on a pool of PoolSize worker    *)
(* processes (starmap_async), the blocking get(), the sum and the save.    *)
(*   seq, phantom  the inputs                                              *)
(*   tstate        per location: "pending", "running", "done", "failed"    *)
(*   run           per started location: the run of apply_pulseq           *)
(*   slots         per location: None, or the signal its task returned     *)
(*   finished      the locations in the order their tasks ended            *)
(*   pc            where the main program is                               *)
(*   results       what get() returned                                     *)
(*   my_signal     the ensemble signal                                     *)
(*   saved         the saved file: None or the array in it                 *)
(***************************************************************************)
VARIABLES seq, phantom, tstate, run, slots, finished, pc, results, my_signal, saved

vars == <<seq, phantom, tstate, run, slots, finished, pc, results, my_signal, saved>>

Locs == DOMAIN phantom

Running == {l \in Locs : tstate[l] = "running"}

InitWith(sq, ph) ==
    /\ seq = sq
    /\ phantom = ph
    /\ tstate = [l \in DOMAIN ph |-> "pending"]
    /\ run = [l \in {} |-> 0]
    /\ slots = [l \in DOMAIN ph |-> None]
    /\ finished = <<>>
    /\ pc = "map"
    /\ results = <<>>
    /\ my_signal = <<>>
    /\ saved = None

\* a free worker takes the task of location l: sim_single_spingroup makes the
\* isochromat and enters apply_pulseq
StartTask(l) ==
    /\ pc = "map"
    /\ tstate[l] = "pending"
    /\ Cardinality(Running) < PoolSize
    /\ tstate' = [tstate EXCEPT ![l] = "running"]
    /\ run' = (l :> NewRun(NewIsochromat(l, df, phantom))) @@ run
    /\ UNCHANGED <<seq, phantom, slots, finished, pc, results, my_signal, saved>>

\* the task of location l makes the next pass of the loop of apply_pulseq
DispatchNext(l) ==
    /\ tstate[l] = "running"
    /\ ~LoopDone(run[l], seq)
    /\ LET st == LoopStep(run[l], seq)
       IN  /\ run' = [run EXCEPT ![l] = st]
           /\ IF st.err # NoErr
              THEN /\ tstate' = [tstate EXCEPT ![l] = "failed"]
                   /\ finished' = Append(finished, l)
              ELSE UNCHANGED <<tstate, finished>>
    /\ seq' = [seq EXCEPT !.block[NextKey(run[l], seq)] = BlockAfterDispatch(@, seq)]
    /\ UNCHANGED <<phantom, slots, pc, results, my_signal, saved>>

\* apply_pulseq returns signal, and the pool stores it as the task's result
ReturnSignal(l) ==
    /\ tstate[l] = "running"
    /\ LoopDone(run[l], seq)
    /\ tstate' = [tstate EXCEPT ![l] = "done"]
    /\ slots' = [slots EXCEPT ![l] = Some(run[l].signal)]
    /\ finished' = Append(finished, l)
    /\ UNCHANGED <<seq, phantom, run, pc, results, my_signal, saved>>

\* the task of location l runs out of memory
TaskExhausted(l) ==
    /\ tstate[l] = "running"
    /\ tstate' = [tstate EXCEPT ![l] = "failed"]
    /\ run' = [run EXCEPT ![l].err = "MemoryError"]
    /\ finished' = Append(finished, l)
    /\ UNCHANGED <<seq, phantom, slots, pc, results, my_signal, saved>>

\* ready as soon as one task has ended
AnyEnded(ts) == \E l \in DOMAIN ts : ts[l] \in {"done", "failed"}

\* starmap_async(...).get(): ready once every task has ended
Ready(ts) == \A l \in DOMAIN ts : ts[l] \in {"done", "failed"}

\* the exception of a failed task is dropped
FailuresIgnored(ts) == FALSE

\* get() re-raises the exception of a task that failed
AnyFailed(ts) == \E l \in DOMAIN ts : ts[l] = "failed"

\* get() returns the results in the order of loc_ind_list, or raises the
\* exception of a failed task
Get ==
    /\ pc = "map"
    /\ Ready(tstate)
    /\ IF AnyFailed(tstate)
       THEN pc' = "failed" /\ UNCHANGED results
       ELSE /\ results' = [i \in 1..Len(get_list_inds(phantom)) |->
                             slots[get_list_inds(phantom)[i]]]
            /\ pc' = "sum"
    /\ UNCHANGED <<seq, phantom, tstate, run, slots, finished, my_signal, saved>>

\* pool.close(); my_signal = np.sum(results, axis=0)
Sum ==
    /\ pc = "sum"
    /\ LET r == NpSum(results)
       IN  IF r.ok THEN my_signal' = r.val /\ pc' = "save"
           ELSE pc' = "failed" /\ UNCHANGED my_signal
    /\ UNCHANGED <<seq, phantom, tstate, run, slots, finished, results, saved>>

\* np.save('pulseq_signal_new.npy', my_signal)
Save ==
    /\ pc = "save"
    /\ saved' = Some(my_signal)
    /\ pc' = "end"
    /\ UNCHANGED <<seq, phantom, tstate, run, slots, finished, results, my_signal>>

Next ==
    \/ \E l \in Locs : StartTask(l)
    \/ \E l \in Locs : DispatchNext(l)
    \/ \E l \in Locs : ReturnSignal(l)
    \/ \E l \in Locs : TaskExhausted(l)
    \/ Get
    \/ Sum
    \/ Save

\* one isochromat; the sequences of at most MaxBlocks blocks, one of them any
\* block of Blocks, stored in any order of their keys
Init ==
    \E n \in 0..MaxBlocks :
      \E i \in 1..(IF n = 0 THEN 1 ELSE n), b \in Blocks,
         c \in [1..n -> ContextBlocks], keys \in KeyOrders(n) :
        InitWith(MakeSequence(StudyBlocks(n, i, b, c), keys),
                 [l \in {1} |-> Location(l)])

Spec == Init /\ [][Next]_vars

\* every phantom; the sequences of at most MaxBlocks well-formed blocks,
\* stored in key order
InitEnsemble ==
    \E n \in 0..MaxBlocks :
      \E bs \in [1..n -> CoreBlocks], ph \in Phantoms :
        InitWith(MakeSequence(bs, AscendingKeys(n)), ph)

SpecEnsemble == InitEnsemble /\ [][Next]_vars

(***************************************************************************)
(* Properties.                                                             *)
(***************************************************************************)
Started == DOMAIN run

\* the event kind that drives a block, by the priority
\* delay > rf > adc > gradient-only over its populated sub-events
DrivingKind(blk) ==
    IF "delay" \in DOMAIN blk THEN "delay"
    ELSE IF "rf" \in DOMAIN blk THEN "rf"
    ELSE IF "adc" \in DOMAIN blk THEN "adc"
    ELSE IF DOMAIN blk \cap {"gx", "gy", "gz"} # {} THEN "grad"
    ELSE "none"

\* the passes of the run that did not raise
Passed(st) ==
    IF st.err \in {NoErr, "MemoryError"} THEN st.visited
    ELSE SubSeq(st.visited, 1, Len(st.visited) - 1)

\* the keys of the ADC blocks among the passes that did not raise, in order
AdcPassed(st) == SelectSeq(Passed(st), LAMBDA k : DrivingKind(seq.block[k]) = "adc")

\* the calls that the pass of block key made on the isochromat
CallsOf(st, key) == SelectSeq(st.calls, LAMBDA c : c.key = key)

\* C1: every block dispatched as an ADC block with declared sample count n
\* contributes an inner list of exactly n samples to the signal, whatever the
\* ADC delay, the dwell time and the duration of the gradients.
C1_ExactlyDeclaredSamples ==
    \A l \in Started :
        LET st == run[l]
            ks == AdcPassed(st)
        IN  /\ Len(st.signal) = Len(ks)
            /\ \A j \in 1..Len(ks) :
                 Len(st.signal[j]) = seq.block[ks[j]]["adc"].num_samples

\* the sequence of one ADC block of one sample, without gradient, RF or delay
TrivialSequence ==
    /\ Len(Keys(seq)) = 1
    /\ DOMAIN seq.block[Keys(seq)[1]] = {"adc"}
    /\ seq.block[Keys(seq)[1]]["adc"].num_samples = 1

\* C2: on the sequence of a single ADC block of one sample and no other
\* sub-event, apply_pulseq runs to completion (the dispatcher raises nothing)
\* and returns the signal whose only sample is the isochromat's initial
\* magnetization read.
C2_TrivialSequenceInitialSample ==
    TrivialSequence =>
        \A l \in Started :
            /\ run[l].err \in {NoErr, "MemoryError"}
            /\ tstate[l] = "done" =>
                 slots[l] = Some(<<<<get_m_signal(NewIsochromat(l, df, phantom))>>>>)

\* the calls an event kind makes on the isochromat
OpsOf(kind) ==
    CASE kind = "delay" -> {"delay"}
      [] kind = "rf" -> {"apply_rf"}
      [] kind = "adc" -> {"fpwg", "get_m_signal"}
      [] kind = "grad" -> {"fpwg"}
      [] OTHER -> {}

\* C3: every block triggers the operations of exactly one event kind, the one
\* chosen by the priority delay > rf > adc > gradient-only over its populated
\* sub-events: every call on the isochromat comes from the case of that kind
\* and is a call of that kind, a delay, RF or gradient-only block makes one
\* call, a block without sub-event none, and only ADC blocks append to signal.
C3_OneKindByPriority ==
    \A l \in Started :
        LET st == run[l]
        IN  /\ \A i \in 1..Len(st.calls) :
                 LET c == st.calls[i]
                     kind == DrivingKind(seq.block[c.key])
                 IN  c.case = kind /\ c.op \in OpsOf(kind)
            /\ \A j \in 1..Len(Passed(st)) :
                 LET k == Passed(st)[j]
                     kind == DrivingKind(seq.block[k])
                 IN  /\ kind \in {"delay", "rf", "grad"} => Len(CallsOf(st, k)) = 1
                     /\ kind = "none" => Len(CallsOf(st, k)) = 0
            /\ Len(st.signal) = Len(AdcPassed(st))

\* a pass over a block with several of delay, rf, adc populated, and gradients
C3_Witness ==
    \E l \in Started :
        \E j \in 1..Len(Passed(run[l])) :
            LET k == Passed(run[l])[j]
            IN  /\ Cardinality(DOMAIN seq.block[k] \cap {"delay", "rf", "adc"}) >= 2
                /\ DOMAIN seq.block[k] \cap {"gx", "gy", "gz"} # {}
                /\ Len(CallsOf(run[l], k)) = 1

CountOps(cs, n, op) == Cardinality({j \in 1..n : cs[j].op = op})

\* the calls that change the isochromat among the first n of cs, as its
\* history records them
Mutations(cs, n) ==
    LET ms == SelectSeq(SubSeq(cs, 1, n), LAMBDA c : c.op # "get_m_signal")
    IN  [j \in 1..Len(ms) |-> [op |-> ms[j].op, args |-> ms[j].args]]

EndsWith(h, t) ==
    Len(h) >= Len(t) /\ SubSeq(h, Len(h) - Len(t) + 1, Len(h)) = t

\* C4: within an ADC block no sample is read before the pre-ADC delay
\* advance; the k-th sample is read after that advance and exactly k-1
\* dwell-step advances, and right before the k-th dwell-step advance; the
\* recorded sample is the isochromat as those advances left it.
C4_ReadBeforeEachAdvance ==
    \A l \in Started :
        LET st == run[l]
            ks == AdcPassed(st)
        IN  \A b \in 1..Len(ks) :
              LET adc == seq.block[ks[b]]["adc"]
                  cs == CallsOf(st, ks[b])
              IN  /\ Len(cs) >= 1
                  /\ cs[1].op = "fpwg" /\ cs[1].args[2] = adc.delay
                  /\ CountOps(cs, Len(cs), "get_m_signal") = Len(st.signal[b])
                  /\ \A i \in 1..Len(cs) :
                       cs[i].op = "get_m_signal" =>
                         LET k == CountOps(cs, i, "get_m_signal")
                         IN  /\ CountOps(cs, i - 1, "fpwg") = k
                             /\ i < Len(cs)
                             /\ cs[i + 1].op = "fpwg"
                             /\ cs[i + 1].args[2] = adc.dwell
                             /\ EndsWith(st.signal[b][k].hist, Mutations(cs, i - 1))

\* an ADC block in which two samples were read
C4_Witness ==
    \E l \in Started :
        \E b \in 1..Len(AdcPassed(run[l])) :
            /\ b <= Len(run[l].signal)
            /\ Len(run[l].signal[b]) >= 2
            /\ seq.block[AdcPassed(run[l])[b]]["adc"].delay > 0

\* C5 as claimed: the blocks are applied in ascending key order, whatever the
\* order in which the block-event table stores them.
C5_AscendingKeyOrder ==
    \A l \in Started :
        /\ \A i, j \in 1..Len(run[l].visited) :
             i < j => run[l].visited[i] < run[l].visited[j]
        /\ \A i, j \in 1..Len(run[l].calls) :
             i < j => run[l].calls[i].key <= run[l].calls[j].key

PosIn(s, x) == CHOOSE i \in 1..Len(s) : s[i] = x

\* C5, amended: the blocks are applied in the order in which the block-event
\* table stores their keys, each block once, the calls of one block all
\* before the calls of the next; a run that returns has applied every block.
C5_StoredKeyOrder ==
    \A l \in Started :
        LET st == run[l]
        IN  /\ Len(st.visited) <= Len(seq.keys)
            /\ st.visited = SubSeq(seq.keys, 1, Len(st.visited))
            /\ \A i \in 1..Len(st.calls) :
                 \E p \in 1..Len(st.visited) : st.visited[p] = st.calls[i].key
            /\ \A i, j \in 1..Len(st.calls) :
                 i < j => PosIn(seq.keys, st.calls[i].key)
                            <= PosIn(seq.keys, st.calls[j].key)
            /\ tstate[l] = "done" =>
                 /\ st.visited = seq.keys
                 /\ \A k \in DOMAIN seq.block :
                      Cardinality({p \in 1..Len(st.visited) : st.visited[p] = k}) = 1

\* a run that returned after applying key 2 before key 1, both with calls
C5_Witness ==
    \E l \in Started :
        /\ tstate[l] = "done"
        /\ seq.keys = <<2, 1>>
        /\ Len(run[l].calls) >= 2
        /\ run[l].calls[1].key = 2
        /\ run[l].calls[Len(run[l].calls)].key = 1

\* the signal of location l as a function of the inputs alone
PerLocation(l) == sim_single_spingroup(l, df, phantom, seq).signal

\* the sum of sample k of ADC block b over the locations S
RECURSIVE SumOfSamples(_, _, _)
SumOfSamples(S, b, k) ==
    IF S = {} THEN EmptyBag
    ELSE LET l == CHOOSE x \in S : TRUE
         IN  SetToBag({PerLocation(l)[b][k]}) (+) SumOfSamples(S \ {l}, b, k)

Summed == pc \in {"save", "end"}

\* C6: in whatever order the tasks start and end, the ensemble signal is the
\* same function of the inputs: every task returns the signal of its own
\* location, entry (b, k) of the ensemble is the sum over the locations of
\* sample k of ADC block b of that location, and that array is what is saved.
C6_OrderInvariantSum ==
    Summed =>
        LET first == get_list_inds(phantom)[1]
        IN  /\ \A l \in Locs : slots[l] = Some(PerLocation(l))
            /\ Len(my_signal) = Len(PerLocation(first))
            /\ \A b \in 1..Len(my_signal) :
                 /\ Len(my_signal[b]) = Len(PerLocation(first)[b])
                 /\ \A k \in 1..Len(my_signal[b]) :
                      my_signal[b][k] = SumOfSamples(Locs, b, k)
            /\ pc = "end" => saved = Some(my_signal)

\* the saved ensemble of two ADC blocks of two samples each, of two locations
\* whose tasks ended in the order 2, 1
C6_Witness ==
    /\ pc = "end"
    /\ finished = <<2, 1>>
    /\ Len(my_signal) = 2
    /\ Len(my_signal[1]) = 2
    /\ Len(my_signal[2]) = 2

\* the summands of a sum of samples that come from location l
SummandsOf(B, l) ==
    {x \in BagToSet(B) : x.loc = phantom[l].loc /\ x.pdt1t2 = phantom[l].pdt1t2}

\* C7: the reduction never starts before every dispatched task has completed
\* (get() has then returned every task's own signal, in the order of the
\* location list), and every location contributes to every entry of the sum
\* exactly once.
C7_ReduceAfterAllTasks ==
    /\ pc \in {"sum", "save", "end"} =>
         /\ \A l \in Locs : tstate[l] = "done"
         /\ Len(results) = Cardinality(Locs)
         /\ \A i \in 1..Len(results) :
              results[i] = Some(run[get_list_inds(phantom)[i]].signal)
    /\ Summed =>
         \A b \in 1..Len(my_signal) : \A k \in 1..Len(my_signal[b]) :
            /\ BagCardinality(my_signal[b][k]) = Cardinality(Locs)
            /\ \A l \in Locs :
                 /\ Cardinality(SummandsOf(my_signal[b][k], l)) = 1
                 /\ \A x \in SummandsOf(my_signal[b][k], l) :
                      CopiesIn(x, my_signal[b][k]) = 1

\* the sum of the signals of two locations has been formed
C7_Witness ==
    /\ pc = "save"
    /\ Cardinality(Locs) = 2
    /\ Len(my_signal) >= 1
    /\ Len(my_signal[1]) >= 1

\* C8: once the task of one location has failed, the run can only end as
\* failed: get() returns no results, no ensemble signal is computed from the
\* other locations' results, and nothing is saved.
C8_FailedTaskFailsRun ==
    (\E l \in Locs : tstate[l] = "failed") =>
        /\ pc \in {"map", "failed"}
        /\ results = <<>>
        /\ my_signal = <<>>
        /\ saved = None

\* the run ended as failed with one task failed and another one's result stored
C8_Witness ==
    /\ pc = "failed"
    /\ \E l, m \in Locs :
         /\ tstate[l] = "failed"
         /\ tstate[m] = "done"
         /\ slots[m] # None
         /\ Len(slots[m][1]) >= 1

\* the ensemble run on the phantom ph with the current sequence, as a whole
EnsembleOf(ph) ==
    LET inds == get_list_inds(ph)
        runs == [i \in 1..Len(inds) |-> sim_single_spingroup(inds[i], df, ph, seq)]
    IN  IF \E i \in 1..Len(runs) : runs[i].err # NoErr THEN Raise("failed")
        ELSE NpSum([i \in 1..Len(runs) |-> Some(runs[i].signal)])

SubPhantom(S) == [l \in S |-> phantom[l]]

\* the elementwise sum of two ensemble signals of one shape
SameShape(x, y) ==
    /\ Len(x) = Len(y)
    /\ \A b \in 1..Len(x) : Len(x[b]) = Len(y[b])

AddSignals(x, y) ==
    [b \in 1..Len(x) |-> [k \in 1..Len(x[b]) |-> x[b][k] (+) y[b][k]]]

\* C9: the ensemble signal of a phantom split into the locations A and the
\* locations B is the elementwise sum of the ensemble signal of A alone and
\* the one of B alone, for the same sequence and off-resonance.
C9_EnsembleIsAdditive ==
    Summed =>
        \A A \in (SUBSET Locs) \ {{}, Locs} :
            LET ea == EnsembleOf(SubPhantom(A))
                eb == EnsembleOf(SubPhantom(Locs \ A))
            IN  /\ ea.ok /\ eb.ok
                /\ SameShape(ea.val, eb.val)
                /\ my_signal = AddSignals(ea.val, eb.val)

\* the ensemble of two locations, with samples in it, has been formed
C9_Witness ==
    /\ pc = "end"
    /\ Cardinality(Locs) = 2
    /\ Len(my_signal) = 2
    /\ Len(my_signal[2]) >= 1

\* the calls logged by a task after its first n
NewMutations(st, n) ==
    LET cs == SubSeq(st.calls, n + 1, Len(st.calls))
    IN  Mutations(cs, Len(cs))

\* C10: a task creates its own fresh isochromat from its own location; a
\* step changes the run (isochromat, signal) of at most one task, that task
\* is running, and its isochromat changes exactly by the calls that this task
\* dispatched in the step; no step changes the sequence, its blocks or the
\* phantom.
C10_TaskLocalState ==
    [][ /\ seq' = seq
        /\ phantom' = phantom
        /\ \A l \in DOMAIN run' :
             IF l \notin DOMAIN run
             THEN /\ run'[l].isc = SpinGroup(phantom[l].loc, phantom[l].pdt1t2, df)
                  /\ run'[l].isc.hist = <<>>
                  /\ \A m \in DOMAIN run : run'[m] = run[m]
             ELSE run'[l] # run[l] =>
                    /\ tstate[l] = "running"
                    /\ \A m \in DOMAIN run \ {l} : run'[m] = run[m]
                    /\ run'[l].isc.loc = run[l].isc.loc
                    /\ run'[l].isc.pdt1t2 = run[l].isc.pdt1t2
                    /\ run'[l].isc.hist =
                         run[l].isc.hist \o NewMutations(run'[l], Len(run[l].calls))
      ]_vars

\* two tasks run side by side, each with calls made on its own isochromat
C10_Witness ==
    \E l, m \in Started :
        /\ l # m
        /\ tstate[l] = "running" /\ tstate[m] = "running"
        /\ Len(run[l].isc.hist) >= 1
        /\ Len(run[m].isc.hist) >= 2
        /\ run[l].isc.loc # run[m].isc.loc

\* the shape of a per-location signal: the number of samples of each inner list
Shape(sig) == [b \in 1..Len(sig) |-> Len(sig[b])]

\* an isochromat at another position, with other PD, T1, T2 and another
\* magnetization
OtherIsochromat ==
    Mutate(SpinGroup(<<0, 0, 9>>, <<9, 9, 9>>, df), [op |-> "delay", args |-> <<7>>])

\* C11: any two locations simulated with the same sequence have signals of
\* identical shape (the same number of inner lists, each with the same number
\* of samples) after the same number of blocks, and they fail on the same
\* block or not at all; the shape of a returned signal is the one that the
\* sequence gives to an isochromat of any other position, PD, T1, T2 and
\* magnetization.
C11_SameShapeEveryLocation ==
    /\ \A l, m \in Started :
         Len(run[l].visited) = Len(run[m].visited) =>
           /\ Shape(run[l].signal) = Shape(run[m].signal)
           /\ (run[l].err \in {NoErr, "MemoryError"})
                <=> (run[m].err \in {NoErr, "MemoryError"})
    /\ \A l \in Locs :
         tstate[l] = "done" =>
           /\ slots[l] # None
           /\ Shape(slots[l][1]) = Shape(apply_pulseq(OtherIsochromat, seq).signal)

\* two locations have returned signals of two inner lists, of one and of
\* MaxSamples samples
C11_Witness ==
    \E l, m \in Locs :
        /\ l # m
        /\ tstate[l] = "done" /\ tstate[m] = "done"
        /\ Shape(slots[l][1]) = <<1, MaxSamples>>
        /\ phantom[l].pdt1t2 # phantom[m].pdt1t2

\* the number of calls that changed the isochromat in the passes before the
\* pass of block key (through: and in that pass)
AdvancesBefore(st, key) ==
    Cardinality({i \in 1..Len(st.calls) :
                    /\ st.calls[i].op # "get_m_signal"
                    /\ PosIn(st.visited, st.calls[i].key) < PosIn(st.visited, key)})

AdvancesThrough(st, key) ==
    Cardinality({i \in 1..Len(st.calls) :
                    /\ st.calls[i].op # "get_m_signal"
                    /\ PosIn(st.visited, st.calls[i].key) <= PosIn(st.visited, key)})

\* C12: the signal holds exactly one inner list per block dispatched as ADC,
\* in the order in which those blocks are processed: inner list j holds the
\* samples read during the j-th ADC block and no others; delay, RF and
\* gradient-only blocks and blocks without sub-event add nothing.
C12_OneInnerListPerAdcBlock ==
    \A l \in Started :
        LET st == run[l]
            ks == AdcPassed(st)
        IN  /\ Len(st.signal) = Len(ks)
            /\ \A j \in 1..Len(ks) :
                 /\ Len(st.signal[j]) =
                      CountOps(CallsOf(st, ks[j]), Len(CallsOf(st, ks[j])), "get_m_signal")
                 /\ \A k \in 1..Len(st.signal[j]) :
                      /\ Len(st.signal[j][k].hist) > AdvancesBefore(st, ks[j])
                      /\ Len(st.signal[j][k].hist) < AdvancesThrough(st, ks[j])
            /\ \A j \in 1..Len(Passed(st)) :
                 DrivingKind(seq.block[Passed(st)[j]]) # "adc" =>
                   CountOps(CallsOf(st, Passed(st)[j]),
                            Len(CallsOf(st, Passed(st)[j])), "get_m_signal") = 0

\* a run that returned one inner list with a sample from two blocks, the
\* first a delay, RF or gradient-only block, the second an ADC block
C12_Witness ==
    \E l \in Started :
        /\ tstate[l] = "done"
        /\ Len(run[l].visited) = 2
        /\ DrivingKind(seq.block[run[l].visited[1]]) \in {"delay", "rf", "grad"}
        /\ DrivingKind(seq.block[run[l].visited[2]]) = "adc"
        /\ Len(run[l].calls) >= 3
        /\ Len(run[l].signal) = 1
        /\ Len(run[l].signal[1]) >= 1

\* the longest intrinsic duration among the gradients of a block (trapezoid:
\* rise + flat + fall; arbitrary: sample count times the raster step)
LongestAxis(blk, dt) ==
    LET D == {IF blk[n].type = "trap"
              THEN blk[n].rise_time + blk[n].flat_time + blk[n].fall_time
              ELSE Len(blk[n].waveform[1]) * dt :
                 n \in DOMAIN blk \cap {"gx", "gy", "gz"}}
    IN  CHOOSE d \in D : \A e \in D : e <= d

\* C13: every block dispatched as gradient-only advances the isochromat
\* exactly once, by one fpwg call over the longest intrinsic duration among
\* the axes present, with area 0 on every absent axis, and reads no sample.
C13_GradOnlyAdvancesOnce ==
    \A l \in Started :
        \A j \in 1..Len(run[l].visited) :
            LET k == run[l].visited[j]
                blk == seq.block[k]
                cs == CallsOf(run[l], k)
            IN  DrivingKind(blk) = "grad" =>
                  /\ Len(cs) = 1
                  /\ cs[1].op = "fpwg"
                  /\ cs[1].args[2] = LongestAxis(blk, seq.system.grad_raster_time)
                  /\ \A a \in 1..3 :
                       GradNames[a] \notin DOMAIN blk => cs[1].args[1][a] = RatZero


\* three rows, one value per time point, zeros on the absent axes
ThreeRows(r, blk) ==
    /\ r.ok
    /\ DOMAIN r.grad = 1..3
    /\ \A a \in 1..3 :
         /\ Len(r.grad[a]) = Len(r.timing)
         /\ GradNames[a] \notin DOMAIN blk =>
              \A i \in 1..Len(r.timing) : r.grad[a][i] = RatZero

\* C14: for every block that a task has dispatched as ADC or as RF, the
\* call of combine_gradients that the dispatcher made (ADC: on the raster of
\* the dwell time with the ADC delay; RF: at the time points of the pulse)
\* returned three rows, each with one value per returned time point, all
\* zeros on every absent axis, also when the block has no gradient at all.
C14_ThreeRowsAlways ==
    \A l \in Started :
        \A j \in 1..Len(run[l].visited) :
            LET blk == seq.block[run[l].visited[j]]
            IN  /\ DrivingKind(blk) = "adc" =>
                     ThreeRows(combine_gradients(blk, blk["adc"].dwell, <<>>,
                                                 blk["adc"].delay), blk)
                /\ DrivingKind(blk) = "rf" =>
                     ThreeRows(combine_gradients(blk, 0,
                                   [i \in 1..Len(blk["rf"].t[1]) |->
                                       blk["rf"].t[1][i] - seq.system.rf_raster_time],
                                   0), blk)

\* the value of the gradient of axis n of a block at time x, over GAMMA_BAR
\* (trapezoids; 0 for an absent axis)
AxisValueAt(blk, n, x) ==
    IF n \notin DOMAIN blk THEN RatZero
    ELSE LET g == blk[n]
             a == Rat(g.amplitude, GAMMA_BAR)
             t1 == g.rise_time
             t2 == g.rise_time + g.flat_time
             t3 == g.rise_time + g.flat_time + g.fall_time
         IN  IF x < 0 \/ x >= t3 THEN RatZero
             ELSE IF x < t1 THEN RatDivInt(RatMul(a, RatInt(x)), t1)
             ELSE IF x <= t2 THEN a
             ELSE RatDivInt(RatMul(a, RatInt(t3 - x)), t3 - t2)

\* C15: every block dispatched as RF makes exactly one apply_rf call, over
\* the RF raster step, with the B1 waveform and a gradient array of one
\* column per RF time sample: column i is the gradient at the i-th sample
\* time of the pulse less one RF raster step.
C15_RfGradientPerSample ==
    \A l \in Started :
        \A j \in 1..Len(run[l].visited) :
            LET k == run[l].visited[j]
                blk == seq.block[k]
                cs == CallsOf(run[l], k)
                dt_rf == seq.system.rf_raster_time
            IN  DrivingKind(blk) = "rf" =>
                  /\ Len(cs) = 1
                  /\ cs[1].op = "apply_rf"
                  /\ cs[1].args[3] = dt_rf
                  /\ Len(cs[1].args[1]) = Len(blk["rf"].t[1])
                  /\ \A a \in 1..3 :
                       /\ Len(cs[1].args[2][a]) = Len(cs[1].args[1])
                       /\ \A i \in 1..Len(blk["rf"].t[1]) :
                            cs[1].args[2][a][i] =
                              AxisValueAt(blk, GradNames[a], blk["rf"].t[1][i] - dt_rf)

\* sum over i in lo..hi of f[i], f a sequence of rationals
RECURSIVE RatSum(_, _, _)
RatSum(f, lo, hi) == IF lo > hi THEN RatZero ELSE RatAdd(f[lo], RatSum(f, lo + 1, hi))

\* the integrals of the row of values y sampled at the times x of a raster of
\* step dt: by the trapezoidal rule, by the rectangle rule, and as the ADC
\* branch accumulates it (column 0 times the delay 0, each later column
\* times dt)
RasterAreas(y, x, dt) ==
    { RatSum([i \in 1..(Len(y) - 1) |->
                 RatDivInt(RatMul(RatAdd(y[i], y[i + 1]), RatInt(x[i + 1] - x[i])), 2)],
             1, Len(y) - 1),
      RatSum([i \in 1..Len(y) |-> RatMul(y[i], RatInt(dt))], 1, Len(y)),
      RatSum([i \in 1..Len(y) |-> RatMul(y[i], RatInt(dt))], 2, Len(y)) }

\* one half times (flat + total duration) times plateau, over GAMMA_BAR
AnalyticArea(g) ==
    RatDivInt(Rat(g.amplitude * (g.flat_time + g.rise_time + g.flat_time + g.fall_time), 2),
              GAMMA_BAR)

\* C16: for every block that a task has dispatched as ADC without delay and
\* every trapezoid of it, the area of the waveform that combine_gradients
\* reconstructed on the raster of the dwell time (by the trapezoidal rule,
\* by the rectangle rule, or as the ADC branch accumulates it) equals the
\* analytic area of the trapezoid.
C16_RasterAreaIsAnalytic ==
    \A l \in Started :
        \A j \in 1..Len(run[l].visited) :
            LET blk == seq.block[run[l].visited[j]]
            IN  (DrivingKind(blk) = "adc" /\ blk["adc"].delay = 0) =>
                  \A a \in 1..3 :
                      (GradNames[a] \in DOMAIN blk /\ blk[GradNames[a]].type = "trap") =>
                        LET r == combine_gradients(blk, blk["adc"].dwell, <<>>, 0)
                        IN  r.ok =>
                              AnalyticArea(blk[GradNames[a]])
                                \in RasterAreas(r.grad[a], r.timing, blk["adc"].dwell)

\* the advances (fpwg calls) among the calls cs
Advances(cs) == SelectSeq(cs, LAMBDA c : c.op = "fpwg")

\* C17: in an ADC block every advance reads a gradient column that exists:
\* no run ends with an IndexError, and the i-th advance of an ADC block takes
\* column i-1 of the reconstructed gradient, i at most the number of
\* reconstructed time points (column 0 over the ADC delay, every later column
\* over the dwell time); an ADC block whose reconstruction raises makes no
\* advance.
C17_ColumnsInRange ==
    \A l \in Started :
        /\ run[l].err # "IndexError"
        /\ \A j \in 1..Len(run[l].visited) :
             LET k == run[l].visited[j]
                 blk == seq.block[k]
                 F == Advances(CallsOf(run[l], k))
             IN  DrivingKind(blk) = "adc" =>
                   LET adc == blk["adc"]
                       c == combine_gradients(blk, adc.dwell, <<>>, adc.delay)
                   IN  IF ~c.ok THEN Len(F) = 0
                       ELSE /\ Len(F) = Len(c.timing)
                            /\ \A i \in 1..Len(F) :
                                 /\ i - 1 < Len(c.timing)
                                 /\ \A a \in 1..3 : i \in DOMAIN c.grad[a]
                                 /\ F[i].args =
                                      IF i = 1
                                      THEN <<Column(c.grad, 0, adc.delay), adc.delay>>
                                      ELSE <<Column(c.grad, i - 1, adc.dwell), adc.dwell>>

\* an ADC block with a delay that advanced over four columns or more, the
\* last ones after its last sample
C17_Witness ==
    \E l \in Started :
        \E j \in 1..Len(run[l].visited) :
            LET k == run[l].visited[j]
                cs == CallsOf(run[l], k)
            IN  /\ DrivingKind(seq.block[k]) = "adc"
                /\ seq.block[k]["adc"].delay > 0
                /\ Len(Advances(cs)) >= 4
                /\ CountOps(cs, Len(cs), "get_m_signal") = seq.block[k]["adc"].num_samples
                /\ cs[Len(cs) - 1].op = "fpwg"

\* the first m blocks of the sequence sq, each ADC declaring n samples
WithSamples(sq, n, m) ==
    [system |-> sq.system,
     keys |-> SubSeq(sq.keys, 1, m),
     block |-> [k \in DOMAIN sq.block |->
                  IF "adc" \in DOMAIN sq.block[k]
                  THEN [sq.block[k] EXCEPT !["adc"].num_samples = n]
                  ELSE sq.block[k]]]

\* C18: the advances of a run and the state they leave the isochromat in do
\* not depend on the declared sample counts: the run of the same blocks with
\* any other sample count declared by the ADC events makes the same advances
\* with the same arguments, leaves the isochromat in the same state and
\* raises the same exception, if any.
C18_AdvancesIgnoreSampleCount ==
    \A l \in Started :
        run[l].err # "MemoryError" =>
          \A n \in 0..(MaxSamples + 1) :
              LET st == run[l]
                  o == apply_pulseq(NewIsochromat(l, df, phantom),
                                    WithSamples(seq, n, Len(st.visited)))
              IN  /\ o.isc = st.isc
                  /\ o.err = st.err
                  /\ Mutations(o.calls, Len(o.calls)) = Mutations(st.calls, Len(st.calls))

\* a run that returned from an ADC block of one declared sample after three
\* advances or more
C18_Witness ==
    \E l \in Started :
        /\ tstate[l] = "done"
        /\ \E j \in 1..Len(run[l].visited) :
             LET k == run[l].visited[j]
             IN  /\ DrivingKind(seq.block[k]) = "adc"
                 /\ seq.block[k]["adc"].num_samples = 1
                 /\ Len(Advances(CallsOf(run[l], k))) >= 3
                 /\ CountOps(CallsOf(run[l], k), Len(CallsOf(run[l], k)), "get_m_signal") = 1
=============================================================================
